---- MODULE Spec2Model ----
(***************************************************************************)
(* Model of the "views" CoreDNS plugin (src/setup.go): the setup-time      *)
(* parsing of the configuration block, the refresher goroutine started by  *)
(* Views.reload, the startup and shutdown hooks and Views.loadConfig,      *)
(* which rebuilds v.ClientACLs and v.ClientZones in place.                 *)
(*                                                                         *)
(* Go strings the code inspects character by character (locators, record   *)
(* names, record types) are sequences of one-character strings.            *)
(***************************************************************************)
EXTENDS Integers, Sequences, FiniteSets, TLC

\* ------------------------------------------------------------------------
\* Bounds of the model
\* ------------------------------------------------------------------------
\* longest configuration block (number of directives) given to setup in SpecSetup
MaxDirectives == 3
\* number of ticks the ticker delivers in the observed run
MaxTicks == 1

\* ------------------------------------------------------------------------
\* setup.go:290-297 schemaCheck, and the strings functions it uses
\* ------------------------------------------------------------------------
SchemaHTTP == "http"
SchemaYAML == "yaml"

HasPrefix(s, p) == Len(s) >= Len(p) /\ SubSeq(s, 1, Len(p)) = p

HasSuffix(s, p) == Len(s) >= Len(p) /\ SubSeq(s, Len(s) - Len(p) + 1, Len(s)) = p

PfxHttp == <<"h", "t", "t", "p", ":", "/", "/">>
PfxHttps == <<"h", "t", "t", "p", "s", ":", "/", "/">>
SfxYaml == <<".", "y", "a", "m", "l">>
SfxYml == <<".", "y", "m", "l">>

\* schemaCheck with the two tests in the wrong order (suffix before prefix)
schemaCheckSuffixFirst(str) ==
    IF HasSuffix(str, SfxYaml) \/ HasSuffix(str, SfxYml)
    THEN [schema |-> SchemaYAML, err |-> "nil", arg |-> <<>>]
    ELSE IF HasPrefix(str, PfxHttp) \/ HasPrefix(str, PfxHttps)
    THEN [schema |-> SchemaHTTP, err |-> "nil", arg |-> <<>>]
    ELSE [schema |-> "", err |-> "unknown schema", arg |-> str]

schemaCheck(str) ==
    IF HasPrefix(str, PfxHttp) \/ HasPrefix(str, PfxHttps)
    THEN [schema |-> SchemaHTTP, err |-> "nil", arg |-> <<>>]
    ELSE IF HasSuffix(str, SfxYaml) \/ HasSuffix(str, SfxYml)
    THEN [schema |-> SchemaYAML, err |-> "nil", arg |-> <<>>]
    ELSE [schema |-> "", err |-> "unknown schema", arg |-> str]

\* ------------------------------------------------------------------------
\* setup.go:73-134 parse
\* ------------------------------------------------------------------------
\* 30 * time.Second, durations counted in seconds
defaultReloadInterval == 30

\* the value of a decimal digit
DigitVal(c) == CASE c = "0" -> 0 [] c = "1" -> 1 [] c = "2" -> 2 [] c = "3" -> 3
                 [] c = "4" -> 4 [] c = "5" -> 5 [] c = "6" -> 6 [] c = "7" -> 7
                 [] c = "8" -> 8 [] c = "9" -> 9 [] OTHER -> -1

\* time.ParseDuration on a one-digit number and a unit ("5s" is <<"5", "s">>),
\* in seconds
ParseDuration(a) ==
    IF Len(a) # 2 \/ DigitVal(a[1]) < 0
    THEN [d |-> 0, err |-> "invalid duration", arg |-> a]
    ELSE IF a[2] = "s" THEN [d |-> DigitVal(a[1]), err |-> "nil", arg |-> <<>>]
    ELSE IF a[2] = "m" THEN [d |-> DigitVal(a[1]) * 60, err |-> "nil", arg |-> <<>>]
    ELSE [d |-> 0, err |-> "unknown unit in duration", arg |-> a]

\* the locals of parse before the loop (setup.go:78-89)
parseInit ==
    [client |-> <<>>, clientSchema |-> "", record |-> <<>>, recordSchema |-> "",
     err |-> "nil", ReloadInterval |-> defaultReloadInterval]

\* the tail of parse (setup.go:118-133)
parseFinish(st) ==
    IF st.err # "nil" THEN [kind |-> "error", err |-> st.err, arg |-> <<>>]
    ELSE IF st.client = <<>>
    THEN [kind |-> "error", err |-> "required argument is missing", arg |-> <<"client">>]
    ELSE IF st.record = <<>>
    THEN [kind |-> "error", err |-> "required argument is missing", arg |-> <<"record">>]
    ELSE [kind |-> "ok",
          v |-> [ReloadInterval |-> st.ReloadInterval,
                 Client |-> st.client, Record |-> st.record,
                 ClientSchema |-> st.clientSchema,
                 RecordSchema |-> st.recordSchema]]

\* the loop of parse (setup.go:91-116) from directive i on; a directive is
\* [name, args], and c.RemainingArgs()[0] on no arguments is a runtime panic
RECURSIVE parseLoop(_, _, _)
parseLoop(blk, i, st) ==
    IF i > Len(blk) THEN parseFinish(st)
    ELSE LET d == blk[i] IN
      IF d.name = "client" THEN
        IF Len(d.args) = 0 THEN [kind |-> "panic", err |-> "index out of range", arg |-> <<>>]
        ELSE LET r == schemaCheck(d.args[1]) IN
          IF r.err # "nil" THEN [kind |-> "error", err |-> r.err, arg |-> r.arg]
          ELSE parseLoop(blk, i + 1,
                 [st EXCEPT !.client = d.args[1], !.clientSchema = r.schema,
                            !.err = r.err])
      ELSE IF d.name = "record" THEN
        IF Len(d.args) = 0 THEN [kind |-> "panic", err |-> "index out of range", arg |-> <<>>]
        ELSE LET r == schemaCheck(d.args[1]) IN
          IF r.err # "nil" THEN [kind |-> "error", err |-> r.err, arg |-> r.arg]
          ELSE parseLoop(blk, i + 1,
                 [st EXCEPT !.record = d.args[1], !.recordSchema = r.schema,
                            !.err = r.err])
      ELSE IF d.name = "reload" THEN
        IF Len(d.args) = 0 THEN [kind |-> "panic", err |-> "index out of range", arg |-> <<>>]
        ELSE LET r == ParseDuration(d.args[1]) IN
          IF r.err # "nil" THEN [kind |-> "error", err |-> r.err, arg |-> r.arg]
          ELSE parseLoop(blk, i + 1, [st EXCEPT !.ReloadInterval = r.d])
      ELSE [kind |-> "error", err |-> "unknown argument", arg |-> <<d.name>>]

parse(blk) == parseLoop(blk, 1, parseInit)

\* ------------------------------------------------------------------------
\* setup.go:184-200 building the client groups
\* ------------------------------------------------------------------------
\* 2^n for the host bits of one octet
Pow2(n) == CASE n = 0 -> 1 [] n = 1 -> 2 [] n = 2 -> 4 [] n = 3 -> 8 [] n = 4 -> 16
             [] n = 5 -> 32 [] n = 6 -> 64 [] n = 7 -> 128 [] OTHER -> 256

\* octet k (1..4) of an address under a mask of the given length
MaskOctet(o, k, bits) ==
    LET r == bits - 8 * (k - 1) IN
    IF r >= 8 THEN o ELSE IF r <= 0 THEN 0 ELSE o - (o % Pow2(8 - r))

\* net.ParseCIDR on the text "o1.o2.o3.o4/bits", held as <<o1, o2, o3, o4, bits>>
\* (a text with a missing part is a shorter tuple): the network of the address,
\* or an error
ParseCIDR(cidr) ==
    IF /\ Len(cidr) = 5
       /\ \A k \in 1..4 : cidr[k] \in 0..255
       /\ cidr[5] \in 0..32
    THEN [err |-> "nil", arg |-> <<>>,
          net |-> [IP |-> [k \in 1..4 |-> MaskOctet(cidr[k], k, cidr[5])],
                   Bits |-> cidr[5]]]
    ELSE [err |-> "invalid CIDR address", arg |-> cidr, net |-> <<>>]

\* the inner loop with `break` in place of `continue`
RECURSIVE cidrNetsBreak(_, _, _)
cidrNetsBreak(prefixes, i, cidrNets) ==
    IF i > Len(prefixes) THEN cidrNets
    ELSE LET r == ParseCIDR(prefixes[i]) IN
      IF r.err # "nil" THEN cidrNets
      ELSE cidrNetsBreak(prefixes, i + 1, Append(cidrNets, r.net))

\* the inner loop (setup.go:186-194) from prefix i on
RECURSIVE cidrNetsLoop(_, _, _)
cidrNetsLoop(prefixes, i, cidrNets) ==
    IF i > Len(prefixes) THEN cidrNets
    ELSE LET r == ParseCIDR(prefixes[i]) IN
      IF r.err # "nil" THEN cidrNetsLoop(prefixes, i + 1, cidrNets)
      ELSE cidrNetsLoop(prefixes, i + 1, Append(cidrNets, r.net))

\* the ClientACL appended for one raw group (setup.go:185-199)
NewClientACL(client) ==
    [Name |-> client.Name, CIDRNets |-> cidrNetsLoop(client.CIDRPrefixes, 1, <<>>)]

\* ------------------------------------------------------------------------
\* setup.go:203-236 building the record sets
\* ------------------------------------------------------------------------
TypeNone == 0
TypeA == 1
TypeCNAME == 5
TypeTXT == 16
TypeAAAA == 28

UpperChars == <<"A", "C", "E", "M", "N", "T", "W", "X">>
LowerChars == <<"a", "c", "e", "m", "n", "t", "w", "x">>

ToUpperChar(c) ==
    IF \E k \in 1..Len(LowerChars) : LowerChars[k] = c
    THEN UpperChars[CHOOSE k \in 1..Len(LowerChars) : LowerChars[k] = c]
    ELSE c

ToLowerChar(c) ==
    IF \E k \in 1..Len(UpperChars) : UpperChars[k] = c
    THEN LowerChars[CHOOSE k \in 1..Len(UpperChars) : UpperChars[k] = c]
    ELSE c

\* strings.ToUpper
ToUpper(s) == [k \in 1..Len(s) |-> ToUpperChar(s[k])]

\* plugin.Host(s).Normalize(): lower case, fully qualified
Normalize(s) ==
    LET l == [k \in 1..Len(s) |-> ToLowerChar(s[k])] IN
    IF Len(l) > 0 /\ l[Len(l)] = "." THEN l ELSE Append(l, ".")

\* a switch on the type string as written
rrtypeOfAsWritten(type) ==
    LET t == type IN
    IF t = <<"A">> THEN TypeA
    ELSE IF t = <<"A", "A", "A", "A">> THEN TypeAAAA
    ELSE IF t = <<"C", "N", "A", "M", "E">> THEN TypeCNAME
    ELSE IF t = <<"T", "X", "T">> THEN TypeTXT
    ELSE TypeNone

\* the switch on the upper-cased type (setup.go:210-222)
rrtypeOf(type) ==
    LET t == ToUpper(type) IN
    IF t = <<"A">> THEN TypeA
    ELSE IF t = <<"A", "A", "A", "A">> THEN TypeAAAA
    ELSE IF t = <<"C", "N", "A", "M", "E">> THEN TypeCNAME
    ELSE IF t = <<"T", "X", "T">> THEN TypeTXT
    ELSE TypeNone

\* the Zone of one raw record (setup.go:224-229)
NewZone(rawRecord) ==
    [Name |-> Normalize(rawRecord.Name), TTL |-> rawRecord.TTL,
     Type |-> rrtypeOf(rawRecord.Type), Value |-> Normalize(rawRecord.Value)]

\* the two assignments with a map that keeps the entry it already has
zonesAddKeepFirst(zones, rawRecord) ==
    LET rr == NewZone(rawRecord) IN
    [Names |-> Append(zones.Names, rr.Name),
     Z |-> zones.Z @@ (rr.Name :> rr)]

\* zones.Names = append(zones.Names, rr.Name); zones.Z[rr.Name] = rr
zonesAdd(zones, rawRecord) ==
    LET rr == NewZone(rawRecord) IN
    [Names |-> Append(zones.Names, rr.Name),
     Z |-> (rr.Name :> rr) @@ zones.Z]

\* the inner loop (setup.go:209-233) from record i on
RECURSIVE zonesLoop(_, _, _)
zonesLoop(records, i, zones) ==
    IF i > Len(records) THEN zones
    ELSE zonesLoop(records, i + 1, zonesAdd(zones, records[i]))

\* make(map[...]...): the map with no key
EmptyMap == [k \in {} |-> <<>>]

\* the Zones stored for one raw record set (setup.go:204-233)
NewZones(r) == zonesLoop(r.Records, 1, [Names |-> <<>>, Z |-> EmptyMap])

\* the whole of setup.go:182-236 run alone on given raw lists
RECURSIVE buildACLs(_, _, _)
buildACLs(rawClients, i, acls) ==
    IF i > Len(rawClients) THEN acls
    ELSE buildACLs(rawClients, i + 1, Append(acls, NewClientACL(rawClients[i])))

RECURSIVE buildZones(_, _, _)
buildZones(rawRecords, i, zs) ==
    IF i > Len(rawRecords) THEN zs
    ELSE buildZones(rawRecords, i + 1,
                    (rawRecords[i].Name :> NewZones(rawRecords[i])) @@ zs)

\* ------------------------------------------------------------------------
\* The inputs: configuration blocks and the documents the sources serve
\* ------------------------------------------------------------------------
LocHttp == <<"h", "t", "t", "p", ":", "/", "/", "x">>
LocHttps == <<"h", "t", "t", "p", "s", ":", "/", "/", "x">>
LocYaml == <<"x", ".", "y", "a", "m", "l">>
LocYml == <<"x", ".", "y", "m", "l">>
LocHttpYaml == <<"h", "t", "t", "p", ":", "/", "/", "x", ".", "y", "m", "l">>
LocJson == <<"x", ".", "j", "s", "o", "n">>
LocUpper == <<"H", "T", "T", "P", ":", "/", "/", "x">>
LocOneSlash == <<"h", "t", "t", "p", ":", "/", "x">>
LocBare == <<"y", "m", "l">>
LocEmpty == <<>>

Directives ==
    {[name |-> "client", args |-> <<l>>] :
        l \in {LocHttp, LocYaml, LocHttpYaml, LocJson, LocBare, LocEmpty}}
    \cup {[name |-> "record", args |-> <<l>>] :
        l \in {LocHttps, LocYml, LocUpper, LocOneSlash}}
    \cup {[name |-> "reload", args |-> <<a>>] :
        a \in {<<"5", "s">>, <<"2", "m">>, <<"0", "s">>, <<"5", "x">>}}
    \cup {[name |-> n, args |-> <<>>] : n \in {"client", "record", "reload", "bogus"}}

\* every block of at most MaxDirectives directives
AllBlocks == UNION {[1..n -> Directives] : n \in 0..MaxDirectives}

\* the blocks the running plugin is checked with: one that uses both kinds of
\* source and the default interval, one whose interval NewTicker rejects, and
\* one parse rejects
RunBlocks ==
    { <<[name |-> "client", args |-> <<LocYaml>>],
        [name |-> "record", args |-> <<LocHttps>>]>>,
      <<[name |-> "client", args |-> <<LocYaml>>],
        [name |-> "record", args |-> <<LocYml>>],
        [name |-> "reload", args |-> <<<<"0", "s">>>>]>>,
      <<[name |-> "client", args |-> <<LocYaml>>]>> }

\* client documents: lists of RawClientACL
ClientDocA ==
    <<[Name |-> "internal",
       CIDRPrefixes |-> <<<<10, 1, 2, 3, 8>>, <<10, 0, 0>>, <<192, 168, 0, 0, 16>>>>],
      [Name |-> "external", CIDRPrefixes |-> <<<<0, 0, 0, 0, 0>>>>]>>

ClientDocB ==
    <<[Name |-> "internal",
       CIDRPrefixes |-> <<<<256, 0, 0, 0, 8>>, <<172, 21, 5, 0, 12>>,
                          <<10, 0, 0, 0, 33>>>>]>>

ClientDocs == {ClientDocA, ClientDocB}

\* record documents: lists of RawRecord
RecordDocA ==
    <<[Name |-> "internal",
       Records |-> <<[Name |-> <<"w">>, TTL |-> 300, Type |-> <<"a">>,
                      Value |-> <<"1">>],
                     [Name |-> <<"x">>, TTL |-> 300, Type |-> <<"M", "X">>,
                      Value |-> <<"W">>],
                     [Name |-> <<"W", ".">>, TTL |-> 60,
                      Type |-> <<"A", "A", "A", "A">>, Value |-> <<"2", ".">>]>>]>>

RecordDocB ==
    <<[Name |-> "internal",
       Records |-> <<[Name |-> <<"x">>, TTL |-> 10,
                      Type |-> <<"c", "N", "a", "m", "e">>, Value |-> <<"W">>]>>],
      [Name |-> "internal",
       Records |-> <<[Name |-> <<"w">>, TTL |-> 5, Type |-> <<"T", "X", "T">>,
                      Value |-> <<"1">>],
                     [Name |-> <<"x", ".">>, TTL |-> 7, Type |-> <<"t", "x", "t">>,
                      Value |-> <<"2">>],
                     [Name |-> <<"W">>, TTL |-> 9, Type |-> <<>>,
                      Value |-> <<"x">>]>>]>>

RecordDocs == {RecordDocA, RecordDocB}

\* setup.go:239-251 parseFromYAML: the outcomes of reading and decoding a file
\* that holds one of docs. The failures are those that return before anything
\* is stored in `out`: the file cannot be read, or it is not YAML
parseFromYAML(docs) ==
    {[out |-> d, err |-> "nil"] : d \in docs} \cup {[out |-> <<>>, err |-> "yaml"]}

\* setup.go:253-288 parseFromHTTP: the outcomes of a GET that serves one of
\* docs. The failures are those that return before anything is stored in `out`:
\* the request fails or times out, or the body is not JSON
parseFromHTTP(docs) ==
    {[out |-> d, err |-> "nil"] : d \in docs} \cup {[out |-> <<>>, err |-> "http"]}

\* ------------------------------------------------------------------------
\* State
\* ------------------------------------------------------------------------
VARIABLES
    block,        \* the configuration block given to setup
    setupResult,  \* "none" before setup; "ok", "error" or "panic" after it
    setupErr,     \* the error setup returned
    views,        \* the configuration fields of the Views value v
    onStartup,    \* the startup hook is registered
    onShutdown,   \* the shutdown hook is registered
    pluginAdded,  \* v is in the handler chain
    reloadChan,   \* "nil", "open" or "closed"
    ticker,       \* the refresher goroutine has created its ticker
    tickerC,      \* ticks buffered in ticker.C (capacity 1)
    ticks,        \* ticks delivered so far
    pc,           \* where each thread is
    rawClients,   \* loadConfig's local rawClients, per thread
    rawRecords,   \* loadConfig's local rawRecords, per thread
    errLogged,    \* log.Error was called in the thread's current loadConfig
    idx,          \* the position of the thread's current range loop
    acls,         \* the value of v.ClientACLs the thread's append has read
    ClientACLs,   \* v.ClientACLs
    ClientZones,  \* v.ClientZones
    loads,        \* history: number of loadConfig calls that have fetched
    gen,          \* history: the fetch number of the thread's current loadConfig
    pubGen,       \* history: the fetch number of the load that last changed v's data
    startState,   \* history: v's data when the thread's loadConfig was called
    trackStart,   \* whether startState is recorded in this behaviour
    failed        \* history: failed loads completed since the last good one

vars == <<block, setupResult, setupErr, views, onStartup, onShutdown, pluginAdded,
          reloadChan, ticker, tickerC, ticks, pc, rawClients, rawRecords,
          errLogged, idx, acls, ClientACLs, ClientZones, loads, gen, pubGen,
          startState, trackStart, failed>>

setupVars == <<block, setupResult, setupErr, views, onStartup, onShutdown,
               pluginAdded>>
loadLocals == <<rawClients, rawRecords, errLogged, idx, acls>>
published == <<ClientACLs, ClientZones>>
history == <<loads, gen, pubGen, startState, trackStart, failed>>

\* the goroutine that runs the startup hook, and the refresher goroutine
Threads == {"startup", "timer"}

NoViews ==
    [ReloadInterval |-> 0, Client |-> <<>>, Record |-> <<>>,
     ClientSchema |-> "", RecordSchema |-> ""]
NoErr == [err |-> "nil", arg |-> <<>>]

InitRest ==
    /\ setupResult = "none"
    /\ setupErr = NoErr
    /\ views = NoViews
    /\ onStartup = FALSE
    /\ onShutdown = FALSE
    /\ pluginAdded = FALSE
    /\ reloadChan = "nil"
    /\ ticker = FALSE
    /\ tickerC = 0
    /\ ticks = 0
    /\ pc = [t \in Threads |-> "idle"]
    /\ rawClients = [t \in Threads |-> <<>>]
    /\ rawRecords = [t \in Threads |-> <<>>]
    /\ errLogged = [t \in Threads |-> FALSE]
    /\ idx = [t \in Threads |-> 0]
    /\ acls = [t \in Threads |-> <<>>]
    /\ ClientACLs = <<>>
    /\ ClientZones = EmptyMap
    /\ loads = 0
    /\ gen = [t \in Threads |-> 0]
    /\ pubGen = 0
    /\ startState = [t \in Threads |-> <<<<>>, EmptyMap>>]
    /\ failed = 0

Init == block \in RunBlocks /\ trackStart = FALSE /\ InitRest

\* the same program, with the history variable startState recorded
InitHist == block \in RunBlocks /\ trackStart = TRUE /\ InitRest

InitSetup == block \in AllBlocks /\ trackStart = FALSE /\ InitRest

\* a panic in any goroutine ends the process
Alive == setupResult # "panic" /\ pc["timer"] # "panic"

\* ------------------------------------------------------------------------
\* setup.go:47-71 setup
\* ------------------------------------------------------------------------
Setup ==
    /\ setupResult = "none"
    /\ LET r == parse(block) IN
       /\ setupResult' = r.kind
       /\ IF r.kind = "ok"
          THEN /\ views' = r.v
               /\ setupErr' = setupErr
               /\ reloadChan' = "open"
               /\ pc' = [pc EXCEPT !["timer"] = "newTicker"]
               /\ onStartup' = TRUE
               /\ onShutdown' = TRUE
               /\ pluginAdded' = TRUE
          ELSE /\ setupErr' = [err |-> r.err, arg |-> r.arg]
               /\ UNCHANGED <<views, reloadChan, pc, onStartup, onShutdown,
                              pluginAdded>>
    /\ UNCHANGED <<block, ticker, tickerC, ticks, loadLocals, published, history>>

\* ------------------------------------------------------------------------
\* setup.go:136-152 Views.reload, the refresher goroutine
\* ------------------------------------------------------------------------
\* time.NewTicker panics on an interval that is not positive
NewTicker ==
    /\ Alive
    /\ pc["timer"] = "newTicker"
    /\ IF views.ReloadInterval <= 0
       THEN pc' = [pc EXCEPT !["timer"] = "panic"] /\ ticker' = ticker
       ELSE pc' = [pc EXCEPT !["timer"] = "select"] /\ ticker' = TRUE
    /\ UNCHANGED <<setupVars, reloadChan, tickerC, ticks, loadLocals, published,
                   history>>

\* the runtime delivers a tick; a tick that finds ticker.C full is dropped
Tick ==
    /\ Alive
    /\ ticker
    /\ tickerC = 0
    /\ ticks < MaxTicks
    /\ tickerC' = 1
    /\ ticks' = ticks + 1
    /\ UNCHANGED <<setupVars, reloadChan, ticker, pc, loadLocals, published,
                   history>>

\* what calling loadConfig does to the thread's frame
CallLoadConfig(t) ==
    /\ pc' = [pc EXCEPT ![t] = "fetch"]
    /\ startState' = IF trackStart
                     THEN [startState EXCEPT ![t] = <<ClientACLs, ClientZones>>]
                     ELSE startState

\* select takes case <-reloadChan: a receive from a closed channel is ready
SelectReload ==
    /\ Alive
    /\ pc["timer"] = "select"
    /\ reloadChan = "closed"
    /\ pc' = [pc EXCEPT !["timer"] = "exited"]
    /\ UNCHANGED <<setupVars, reloadChan, ticker, tickerC, ticks, loadLocals,
                   published, history>>

\* select takes case <-ticker.C; when both cases are ready, either is taken
SelectTick ==
    /\ Alive
    /\ pc["timer"] = "select"
    /\ tickerC = 1
    /\ tickerC' = 0
    /\ CallLoadConfig("timer")
    /\ UNCHANGED <<setupVars, reloadChan, ticker, ticks, loadLocals, published,
                   loads, gen, pubGen, trackStart, failed>>

\* ------------------------------------------------------------------------
\* setup.go:55-63 the hooks
\* ------------------------------------------------------------------------
OnStartup ==
    /\ Alive
    /\ onStartup
    /\ pc["startup"] = "idle"
    /\ CallLoadConfig("startup")
    /\ UNCHANGED <<setupVars, reloadChan, ticker, tickerC, ticks, loadLocals,
                   published, loads, gen, pubGen, trackStart, failed>>

OnShutdown ==
    /\ Alive
    /\ onShutdown
    /\ pc["startup"] = "done"
    /\ reloadChan = "open"
    /\ reloadChan' = "closed"
    /\ UNCHANGED <<setupVars, ticker, tickerC, ticks, pc, loadLocals, published,
                   history>>

\* ------------------------------------------------------------------------
\* setup.go:154-237 Views.loadConfig, one action per statement that reads a
\* source or writes a field of v; the loops' local work (cidrNets, zones) is
\* done in the step of the statement that stores its result
\* ------------------------------------------------------------------------
\* setup.go:161-180  both sources are read; an error is logged and ignored
Fetch(t) ==
    /\ Alive
    /\ pc[t] = "fetch"
    /\ \E c \in (IF views.ClientSchema = SchemaYAML THEN parseFromYAML(ClientDocs)
                 ELSE IF views.ClientSchema = SchemaHTTP
                 THEN parseFromHTTP(ClientDocs)
                 ELSE {[out |-> <<>>, err |-> "nil"]}),
          r \in (IF views.RecordSchema = SchemaYAML THEN parseFromYAML(RecordDocs)
                 ELSE IF views.RecordSchema = SchemaHTTP
                 THEN parseFromHTTP(RecordDocs)
                 ELSE {[out |-> <<>>, err |-> "nil"]}) :
         /\ rawClients' = [rawClients EXCEPT ![t] = c.out]
         /\ rawRecords' = [rawRecords EXCEPT ![t] = r.out]
         /\ errLogged' = [errLogged EXCEPT ![t] = (c.err # "nil" \/ r.err # "nil")]
    /\ loads' = loads + 1
    /\ gen' = [gen EXCEPT ![t] = loads + 1]
    /\ pc' = [pc EXCEPT ![t] = "resetACLs"]
    /\ UNCHANGED <<setupVars, reloadChan, ticker, tickerC, ticks, idx, acls,
                   published, pubGen, startState, trackStart, failed>>

\* setup.go:182  v.ClientACLs = []*ClientACL{}
ResetACLs(t) ==
    /\ Alive
    /\ pc[t] = "resetACLs"
    /\ ClientACLs' = <<>>
    /\ pubGen' = IF ClientACLs' # ClientACLs THEN gen[t] ELSE pubGen
    /\ idx' = [idx EXCEPT ![t] = 1]
    /\ pc' = [pc EXCEPT ![t] = IF Len(rawClients[t]) = 0 THEN "resetZones"
                                ELSE "readACLs"]
    /\ UNCHANGED <<setupVars, reloadChan, ticker, tickerC, ticks, rawClients,
                   rawRecords, errLogged, acls, ClientZones, loads, gen, startState,
                   trackStart, failed>>

\* setup.go:184-196  one turn of the loop over rawClients, up to the read of
\* v.ClientACLs that append is called with
ReadACLs(t) ==
    /\ Alive
    /\ pc[t] = "readACLs"
    /\ acls' = [acls EXCEPT ![t] = ClientACLs]
    /\ pc' = [pc EXCEPT ![t] = "appendACL"]
    /\ UNCHANGED <<setupVars, reloadChan, ticker, tickerC, ticks, rawClients,
                   rawRecords, errLogged, idx, published, history>>

\* setup.go:196-199  the store of append's result in v.ClientACLs
AppendACL(t) ==
    /\ Alive
    /\ pc[t] = "appendACL"
    /\ ClientACLs' = Append(acls[t], NewClientACL(rawClients[t][idx[t]]))
    /\ pubGen' = IF ClientACLs' # ClientACLs THEN gen[t] ELSE pubGen
    /\ acls' = [acls EXCEPT ![t] = <<>>]
    /\ idx' = [idx EXCEPT ![t] = idx[t] + 1]
    /\ pc' = [pc EXCEPT ![t] = IF idx[t] + 1 > Len(rawClients[t]) THEN "resetZones"
                                ELSE "readACLs"]
    /\ UNCHANGED <<setupVars, reloadChan, ticker, tickerC, ticks, rawClients,
                   rawRecords, errLogged, ClientZones, loads, gen, startState,
                   trackStart, failed>>

\* setup.go:202  v.ClientZones = make(map[string]Zones)
ResetZones(t) ==
    /\ Alive
    /\ pc[t] = "resetZones"
    /\ ClientZones' = EmptyMap
    /\ pubGen' = IF ClientZones' # ClientZones THEN gen[t] ELSE pubGen
    /\ idx' = [idx EXCEPT ![t] = 1]
    /\ pc' = [pc EXCEPT ![t] = IF Len(rawRecords[t]) = 0 THEN "return"
                                ELSE "putZones"]
    /\ UNCHANGED <<setupVars, reloadChan, ticker, tickerC, ticks, rawClients,
                   rawRecords, errLogged, acls, ClientACLs, loads, gen, startState,
                   trackStart, failed>>

\* setup.go:203-236  one turn of the loop over rawRecords
PutZones(t) ==
    /\ Alive
    /\ pc[t] = "putZones"
    /\ LET r == rawRecords[t][idx[t]] IN
       ClientZones' = (r.Name :> NewZones(r)) @@ ClientZones
    /\ pubGen' = IF ClientZones' # ClientZones THEN gen[t] ELSE pubGen
    /\ idx' = [idx EXCEPT ![t] = idx[t] + 1]
    /\ pc' = [pc EXCEPT ![t] = IF idx[t] + 1 > Len(rawRecords[t]) THEN "return"
                                ELSE "putZones"]
    /\ UNCHANGED <<setupVars, reloadChan, ticker, tickerC, ticks, rawClients,
                   rawRecords, errLogged, acls, ClientACLs, loads, gen, startState,
                   trackStart, failed>>

\* a refresher that leaves its loop when a load has failed
ReturnGiveUp(t) ==
    /\ Alive
    /\ pc[t] = "return"
    /\ pc' = [pc EXCEPT ![t] = IF t = "timer"
                                THEN (IF errLogged[t] THEN "exited" ELSE "select")
                                ELSE "done"]
    /\ rawClients' = [rawClients EXCEPT ![t] = <<>>]
    /\ rawRecords' = [rawRecords EXCEPT ![t] = <<>>]
    /\ errLogged' = [errLogged EXCEPT ![t] = FALSE]
    /\ idx' = [idx EXCEPT ![t] = 0]
    /\ gen' = [gen EXCEPT ![t] = 0]
    /\ startState' = [startState EXCEPT ![t] = <<<<>>, EmptyMap>>]
    /\ failed' = IF errLogged[t] THEN failed + 1 ELSE 0
    /\ UNCHANGED <<setupVars, reloadChan, ticker, tickerC, ticks, acls, published,
                   loads, pubGen, trackStart>>

\* setup.go:237  loadConfig returns: to the select loop, or out of the hook
Return(t) ==
    /\ Alive
    /\ pc[t] = "return"
    /\ pc' = [pc EXCEPT ![t] = IF t = "timer" THEN "select" ELSE "done"]
    /\ rawClients' = [rawClients EXCEPT ![t] = <<>>]
    /\ rawRecords' = [rawRecords EXCEPT ![t] = <<>>]
    /\ errLogged' = [errLogged EXCEPT ![t] = FALSE]
    /\ idx' = [idx EXCEPT ![t] = 0]
    /\ gen' = [gen EXCEPT ![t] = 0]
    /\ startState' = [startState EXCEPT ![t] = <<<<>>, EmptyMap>>]
    /\ failed' = IF errLogged[t] THEN failed + 1 ELSE 0
    /\ UNCHANGED <<setupVars, reloadChan, ticker, tickerC, ticks, acls, published,
                   loads, pubGen, trackStart>>

LoadConfig ==
    \E t \in Threads :
        \/ Fetch(t)
        \/ ResetACLs(t)
        \/ ReadACLs(t)
        \/ AppendACL(t)
        \/ ResetZones(t)
        \/ PutZones(t)
        \/ Return(t)

Next ==
    \/ Setup
    \/ NewTicker
    \/ Tick
    \/ SelectReload
    \/ SelectTick
    \/ OnStartup
    \/ OnShutdown
    \/ LoadConfig

Spec == Init /\ [][Next]_vars

\* setup alone, on every block of at most MaxDirectives directives
NextSetup == Setup

SpecSetup == InitSetup /\ [][NextSetup]_vars

\* the same program with the history variable startState recorded
SpecHist == InitHist /\ [][Next]_vars

\* the refresher goroutine is scheduled when it can run: it comes back from
\* loadConfig, takes a tick that is waiting in ticker.C, and its fetches end
\* (the HTTP client has a timeout, setup.go:260)
SpecLive ==
    /\ Init
    /\ [][Next]_vars
    /\ WF_vars(Return("timer"))
    /\ WF_vars(SelectTick)
    /\ WF_vars(Fetch("timer"))

\* ------------------------------------------------------------------------
\* Properties
\* ------------------------------------------------------------------------
\* what one loadConfig running alone leaves in v for given raw lists
Snapshot(rawC, rawR) == <<buildACLs(rawC, 1, <<>>), buildZones(rawR, 1, EmptyMap)>>

\* the thread is inside loadConfig
InLoad(t) ==
    pc[t] \in {"fetch", "resetACLs", "readACLs", "appendACL", "resetZones",
               "putZones", "return"}

\* C1: a loadConfig that was called on loaded data (groups and record sets)
\* and in which a fetch failed has, when it returns, left v's data exactly as
\* they were when it was called.
C1_FailedLoadKeepsState ==
    \A t \in Threads :
        (/\ pc[t] = "return"
         /\ errLogged[t]
         /\ startState[t][1] # <<>>
         /\ startState[t][2] # EmptyMap) => published = startState[t]

\* C2: a reader never sees a partly built snapshot: whenever a step of a
\* loadConfig changes what a reader can observe in v, the new value is the
\* complete result of that load.
C2_OnlyCompleteSnapshotsVisible ==
    [][\A t \in Threads :
          (pc'[t] # pc[t] /\ published' # published)
              => published' = Snapshot(rawClients[t], rawRecords[t])]_vars

\* the raw records kept under one normalized name: zs holds the last of them
LastWins(records, zs) ==
    /\ \A i \in 1..Len(records) : Normalize(records[i].Name) \in DOMAIN zs.Z
    /\ \A n \in DOMAIN zs.Z :
         \E i \in 1..Len(records) :
            /\ Normalize(records[i].Name) = n
            /\ \A j \in (i + 1)..Len(records) : Normalize(records[j].Name) # n
            /\ zs.Z[n].Name = n
            /\ zs.Z[n].TTL = records[i].TTL
            /\ zs.Z[n].Type = rrtypeOf(records[i].Type)
            /\ zs.Z[n].Value = Normalize(records[i].Value)

\* C3: last write wins per name: every record set in v.ClientZones holds, under
\* each normalized name of its raw record list and under no other key, the
\* data of the last raw record with that name.
C3_LastWriteWins ==
    \A n \in DOMAIN ClientZones :
        \E d \in RecordDocs : \E j \in 1..Len(d) :
            d[j].Name = n /\ LastWins(d[j].Records, ClientZones[n])

\* a record set built from a raw list that names "w." twice is published
C3_Witness ==
    /\ \E t \in Threads : pc[t] = "return"
    /\ "internal" \in DOMAIN ClientZones
    /\ Len(ClientZones["internal"].Names) = 3
    /\ Cardinality(DOMAIN ClientZones["internal"].Z) = 2
    /\ ClientZones["internal"].Z[<<"w", ".">>].TTL = 60

IsCIDR(cidr) == ParseCIDR(cidr).err = "nil"

\* the networks of the strings of a prefix list that parse, in their order
ValidNets(prefixes) ==
    LET ok == SelectSeq(prefixes, IsCIDR) IN
    [k \in 1..Len(ok) |-> ParseCIDR(ok[k]).net]

\* C4: a malformed CIDR string removes only itself: every group loaded has the
\* networks of exactly the well-formed strings of its raw group, in order, and
\* a document loads as it would with its malformed strings taken out.
C4_MalformedPrefixOnlyDropped ==
    /\ \A i \in 1..Len(ClientACLs) :
          \E d \in ClientDocs : \E j \in 1..Len(d) :
             /\ ClientACLs[i].Name = d[j].Name
             /\ ClientACLs[i].CIDRNets = ValidNets(d[j].CIDRPrefixes)
    /\ \A t \in Threads :
          pc[t] = "appendACL" =>
             LET g == rawClients[t][idx[t]]
                 clean == [g EXCEPT !.CIDRPrefixes = SelectSeq(@, IsCIDR)]
             IN  NewClientACL(g) = NewClientACL(clean)

\* the document with a malformed string between two well-formed ones is loaded
C4_Witness ==
    /\ \E t \in Threads : pc[t] = "return" /\ rawClients[t] = ClientDocA
    /\ Len(ClientACLs) = 2
    /\ ClientACLs[1].Name = "internal"
    /\ Len(ClientACLs[1].CIDRNets) = 2
    /\ ClientACLs[1].CIDRNets[1].IP = <<10, 0, 0, 0>>
    /\ ClientACLs[2].Name = "external"
    /\ Len(ClientACLs[2].CIDRNets) = 1

\* C5: v's data never go back to data fetched earlier than data already
\* published: no load changes v's data after a load that fetched later did.
C5_PublishedNeverGoesBack == [][pubGen' >= pubGen]_vars

\* C6: once reloadChan is closed the refresher begins no further loadConfig.
C6_NoLoadAfterShutdownSignal ==
    [][(reloadChan = "closed" /\ pc["timer"] = "select")
          => pc'["timer"] # "fetch"]_vars

\* C7: no timer-driven loadConfig is in progress before the startup load has
\* completed.
C7_TimerLoadsAfterStartupLoad ==
    InLoad("timer") => pc["startup"] = "done"

\* the classification of a locator, character by character
BeginsWith(s, lit) ==
    Len(s) >= Len(lit) /\ \A i \in 1..Len(lit) : s[i] = lit[i]
EndsWith(s, lit) ==
    Len(s) >= Len(lit) /\ \A i \in 1..Len(lit) : s[Len(s) - Len(lit) + i] = lit[i]
ExpectedSchema(s) ==
    IF BeginsWith(s, PfxHttp) \/ BeginsWith(s, PfxHttps) THEN "http"
    ELSE IF EndsWith(s, SfxYaml) \/ EndsWith(s, SfxYml) THEN "yaml"
    ELSE "none"

HasLocator(d, names) == d.name \in names /\ Len(d.args) > 0

\* C8: a locator that begins with http:// or https:// selects HTTP, otherwise
\* one that ends with .yaml or .yml selects YAML, otherwise parse fails with
\* the unknown-schema error; the Views parse returns has both schemas set.
C8_SourceSelection ==
    setupResult # "none" =>
      /\ setupResult = "ok" =>
            /\ views.ClientSchema \in {SchemaHTTP, SchemaYAML}
            /\ views.RecordSchema \in {SchemaHTTP, SchemaYAML}
            /\ views.ClientSchema = ExpectedSchema(views.Client)
            /\ views.RecordSchema = ExpectedSchema(views.Record)
      /\ (\E i \in 1..Len(block) :
             /\ HasLocator(block[i], {"client", "record"})
             /\ ExpectedSchema(block[i].args[1]) = "none")
            => setupResult # "ok"
      /\ (/\ Len(block) > 0
          /\ HasLocator(block[1], {"client", "record"})
          /\ ExpectedSchema(block[1].args[1]) = "none")
            => /\ setupResult = "error"
               /\ setupErr = [err |-> "unknown schema", arg |-> block[1].args[1]]
      /\ setupErr.err = "unknown schema" => ExpectedSchema(setupErr.arg) = "none"

\* a locator with both the prefix and the suffix is accepted as HTTP
C8_Witness ==
    /\ setupResult = "ok"
    /\ views.Client = LocHttpYaml
    /\ views.ClientSchema = SchemaHTTP
    /\ views.RecordSchema = SchemaYAML

\* the block has one of the faults that must stop setup
BadBlock(b) ==
    \/ ~ \E i \in 1..Len(b) : HasLocator(b[i], {"client"})
    \/ ~ \E i \in 1..Len(b) : HasLocator(b[i], {"record"})
    \/ \E i \in 1..Len(b) :
          \/ /\ HasLocator(b[i], {"client", "record"})
             /\ ExpectedSchema(b[i].args[1]) = "none"
          \/ /\ HasLocator(b[i], {"reload"})
             /\ ParseDuration(b[i].args[1]).err # "nil"
          \/ b[i].name \notin {"client", "record", "reload"}

\* C9: on a block with a fault, parse returns an error and setup returns it
\* with no refresher started, no hook registered and the plugin not added.
C9_SetupErrorsReturnError ==
    (setupResult # "none" /\ BadBlock(block)) =>
        /\ setupResult = "error"
        /\ pc["timer"] = "idle"
        /\ reloadChan = "nil"
        /\ ~onStartup
        /\ ~onShutdown
        /\ ~pluginAdded

\* C10: when a loadConfig that fetched both sources returns, v's data are what
\* its two raw lists alone determine.
C10_SuccessfulLoadReplacesWholesale ==
    \A t \in Threads :
        (pc[t] = "return" /\ ~errLogged[t])
            => published = Snapshot(rawClients[t], rawRecords[t])

\* C11: the startup load and a timer-driven load are never both inside
\* loadConfig at the same time.
C11_NoTwoLoadsAtOnce == ~(InLoad("startup") /\ InLoad("timer"))

C13_OneGroupPerRawGroup ==
    \A t \in Threads :
        (pc[t] = "return" /\ ~errLogged[t]) =>
            /\ Len(ClientACLs) = Len(rawClients[t])
            /\ \A i \in 1..Len(rawClients[t]) :
                   i <= Len(ClientACLs) => ClientACLs[i].Name = rawClients[t][i].Name

\* the two cases of each letter of the type names
CasePairs ==
    {<<"a", "A">>, <<"c", "C">>, <<"e", "E">>, <<"m", "M">>, <<"n", "N">>,
     <<"t", "T">>, <<"x", "X">>}

\* s is the upper-case name u, ignoring letter case
FoldEq(s, u) ==
    /\ Len(s) = Len(u)
    /\ \A k \in 1..Len(u) : s[k] = u[k] \/ <<s[k], u[k]>> \in CasePairs

\* the entries of zs have the types their raw records name
TypesMapped(records, zs) ==
    /\ \A i \in 1..Len(records) : Normalize(records[i].Name) \in DOMAIN zs.Z
    /\ \A n \in DOMAIN zs.Z :
         \E i \in 1..Len(records) :
            LET raw == records[i].Type
                type == zs.Z[n].Type
            IN  /\ Normalize(records[i].Name) = n
                /\ \A j \in (i + 1)..Len(records) : Normalize(records[j].Name) # n
                /\ type = TypeA <=> FoldEq(raw, <<"A">>)
                /\ type = TypeAAAA <=> FoldEq(raw, <<"A", "A", "A", "A">>)
                /\ type = TypeCNAME <=> FoldEq(raw, <<"C", "N", "A", "M", "E">>)
                /\ type = TypeTXT <=> FoldEq(raw, <<"T", "X", "T">>)
                /\ type \in {TypeA, TypeAAAA, TypeCNAME, TypeTXT, TypeNone}

\* C14: the type of every stored entry is A, AAAA, CNAME or TXT exactly when
\* the raw type string is that name ignoring letter case, and UNKNOWN (0) for
\* every other string; an entry of UNKNOWN type is stored under its normalized
\* name all the same, replacing an earlier entry of that name.
C14_RecordTypeMapping ==
    \A n \in DOMAIN ClientZones :
        \E d \in RecordDocs : \E j \in 1..Len(d) :
            d[j].Name = n /\ TypesMapped(d[j].Records, ClientZones[n])

\* an entry with the empty type string has replaced the TXT entry of "w.",
\* next to an entry whose type was written in lower case
C14_Witness ==
    /\ \E t \in Threads : pc[t] = "return"
    /\ "internal" \in DOMAIN ClientZones
    /\ DOMAIN ClientZones["internal"].Z = {<<"w", ".">>, <<"x", ".">>}
    /\ ClientZones["internal"].Z[<<"w", ".">>].Type = TypeNone
    /\ ClientZones["internal"].Z[<<"w", ".">>].TTL = 9
    /\ ClientZones["internal"].Z[<<"x", ".">>].Type = TypeTXT
    /\ ClientZones["internal"].Z[<<"x", ".">>].TTL = 7

\* the names of the record sets of a raw record list
SetNames(rawR) == {rawR[i].Name : i \in 1..Len(rawR)}

\* the last record set of the list that carries the name n
LastSet(rawR, n) ==
    rawR[CHOOSE i \in 1..Len(rawR) :
            /\ rawR[i].Name = n
            /\ \A j \in (i + 1)..Len(rawR) : rawR[j].Name # n]

\* C15: when a loadConfig that fetched both sources returns, ClientZones has
\* one record set for each distinct record-set name of its raw record list
\* and no other, and each is built from the last raw record set of that name
\* alone.
C15_OneSetPerName ==
    \A t \in Threads :
        (pc[t] = "return" /\ ~errLogged[t]) =>
            /\ DOMAIN ClientZones = SetNames(rawRecords[t])
            /\ \A n \in SetNames(rawRecords[t]) :
                   n \in DOMAIN ClientZones
                       => ClientZones[n] = NewZones(LastSet(rawRecords[t], n))

\* C16: in every record set of ClientZones, Names lists the keys of Z without
\* repetition: each element of Names is a key, each key is in Names, no name
\* is there twice, and each entry is stored under its own Name.
C16_NamesEnumerateKeys ==
    \A n \in DOMAIN ClientZones :
        LET zs == ClientZones[n] IN
        /\ \A i \in 1..Len(zs.Names) : zs.Names[i] \in DOMAIN zs.Z
        /\ \A k \in DOMAIN zs.Z : \E i \in 1..Len(zs.Names) : zs.Names[i] = k
        /\ \A i, j \in 1..Len(zs.Names) : i # j => zs.Names[i] # zs.Names[j]
        /\ \A k \in DOMAIN zs.Z : zs.Z[k].Name = k

====
